---- MODULE Spec2Model ----
(***************************************************************************)
(* Taxonomy subsystem of kr2r (src/kr2r/src/taxonomy.rs): the NCBI         *)
(* taxonomy with its marked set, BFS compaction into a flat node array,    *)
(* the binary codec and the ancestor / LCA queries.                        *)
(*                                                                         *)
(* Rust vectors are 0-based, TLA+ sequences 1-based: the node with         *)
(* internal ID i is nodes[i + 1].  Strings and blobs are sequences of byte *)
(* values.  u64 values of the model stay below 2^31.                       *)
(***************************************************************************)
EXTENDS Integers, Sequences, FiniteSets, TLC

\* ---------------------------------------------------------------- bounds
\* external IDs of the nodes file are 1..MaxNode
MaxNode == 4
\* number of mark_node calls made before the taxonomy is converted
MaxMarks == 3
\* a Taxonomy put to the queries has internal IDs 0..n, n up to MaxQueryNode
MaxQueryNode == 3
\* longest path held by a path_cache put to the queries
MaxPathLen == 2

ExternalIds == 1..MaxNode
\* an external ID that no line of the nodes file mentions
UnknownId == MaxNode + 1
\* the arguments mark_node is called with
TaxIds == 0..UnknownId

\* ---------------------------------------------------------------- helpers
Range(s) == {s[i] : i \in 1..Len(s)}

Min(S) == CHOOSE x \in S : \A y \in S : x <= y

RECURSIVE SortedSeq(_)
\* Vec of a set's elements after sort_unstable()
SortedSeq(S) ==
    IF S = {} THEN <<>>
    ELSE LET m == Min(S) IN <<m>> \o SortedSeq(S \ {m})

\* byte-wise lexicographic order of two strings (Ord for String)
StrLess(s, t) ==
    \E k \in 0..Len(s) :
        /\ k <= Len(t)
        /\ \A i \in 1..k : s[i] = t[i]
        /\ \/ (k = Len(s) /\ k < Len(t))
           \/ (k < Len(s) /\ k < Len(t) /\ s[k + 1] < t[k + 1])

RECURSIVE SortedStrs(_)
SortedStrs(S) ==
    IF S = {} THEN <<>>
    ELSE LET m == CHOOSE x \in S : \A y \in S \ {x} : StrLess(x, y)
         IN <<m>> \o SortedStrs(S \ {m})

\* ---------------------------------------------------------------- inputs
\* rank strings of the nodes file: "no rank", "genus", "species"
NoRank == <<110, 111, 32, 114, 97, 110, 107>>
Genus == <<103, 101, 110, 117, 115>>
Species == <<115, 112, 101, 99, 105, 101, 115>>

RECURSIVE Climbs(_, _, _)
\* n reaches the root 1 in at most k parent steps of f
Climbs(f, n, k) ==
    IF n = 1 THEN TRUE
    ELSE IF k = 0 \/ n = 0 THEN FALSE
    ELSE Climbs(f, f[n], k - 1)

\* parent maps parse_nodes_file builds from a nodes file that lists every
\* node once and is a tree rooted at 1 (node 1 is forced to parent 0)
ParentMaps ==
    {f \in [ExternalIds -> 0..MaxNode] :
        /\ f[1] = 0
        /\ \A n \in ExternalIds \ {1} : f[n] # 0 /\ Climbs(f, n, MaxNode)}

\* child_map of parse_nodes_file: parent -> set of nodes naming it
ChildMapOf(f) ==
    [p \in {f[n] : n \in DOMAIN f} |-> {n \in DOMAIN f : f[n] = p}]

RankOf(n) == IF n = 1 THEN NoRank ELSE IF n % 2 = 0 THEN Genus ELSE Species

\* scientific name of node n: one or two letters
NameOf(n) == IF n % 2 = 0 THEN <<65 + n>> ELSE <<65 + n, 97 + n>>

\* ---------------------------------------------------------------- state
VARIABLES
    parent_map,     \* NCBITaxonomy.parent_map
    child_map,      \* NCBITaxonomy.child_map
    name_map,       \* NCBITaxonomy.name_map
    rank_map,       \* NCBITaxonomy.rank_map
    known_ranks,    \* NCBITaxonomy.known_ranks
    marked_nodes,   \* NCBITaxonomy.marked_nodes
    passed,         \* the taxids mark_node has been called with while the
                    \* NCBITaxonomy is being prepared ({} once it is converted)
    calls,          \* number of those calls
    converted,      \* convert_to_kraken_taxonomy has returned a Taxonomy
    nodes,          \* Taxonomy.nodes
    name_data,      \* Taxonomy.name_data
    rank_data,      \* Taxonomy.rank_data
    external_to_internal_id_map,  \* Taxonomy.external_to_internal_id_map
    path_cache,     \* Taxonomy.path_cache
    cache_built,    \* "no", or how build_path_cache last ran: "mapped"
                    \* (ID map generated before it) or "unmapped"
    file,           \* bytes write_to_disk left on disk, <<>> before
    written,        \* write_to_disk has run
    build,          \* the build (target and layout) of the loading program
    loaded,         \* result of from_file
    query           \* the last query made of the Taxonomy: arguments a, b,
                    \* the loop variables cur_a, cur_b of
                    \* lowest_common_ancestor, and what it returned

ncbi_vars == <<parent_map, child_map, name_map, rank_map, known_ranks>>
taxo_vars == <<nodes, name_data, rank_data>>
disk_vars == <<file, written, build, loaded>>
vars == <<parent_map, child_map, name_map, rank_map, known_ranks,
          marked_nodes, passed, calls, converted, nodes, name_data, rank_data,
          external_to_internal_id_map, path_cache, cache_built,
          file, written, build, loaded, query>>

\* ---------------------------------------------------------------- NCBITaxonomy
RECURSIVE mark_node_from(_, _, _)
\* the while loop of mark_node, current_taxid = cur
mark_node_from(pm, marked, cur) ==
    IF cur \in marked THEN marked
    ELSE LET inserted == marked \cup {cur}
         IN IF cur \in DOMAIN pm
            THEN mark_node_from(pm, inserted, pm[cur])
            ELSE inserted

\* mark_node without the walk: only taxid itself is inserted
mark_node_no_walk(pm, marked, taxid) == marked \cup {taxid}

RECURSIVE first_unmarked(_, _, _)
\* the first node from cur upwards that is not marked
first_unmarked(pm, marked, cur) ==
    IF cur \notin marked \/ cur \notin DOMAIN pm THEN cur
    ELSE first_unmarked(pm, marked, pm[cur])

\* mark_node with the loop body run once, after skipping what is marked:
\* each call marks one more level
mark_node_one_level(pm, marked, taxid) ==
    marked \cup {first_unmarked(pm, marked, taxid)}

RECURSIVE mark_node_no_stop(_, _, _)
\* mark_node with a loop that ends only where parent_map has no entry
mark_node_no_stop(pm, marked, taxid) ==
    IF taxid \in DOMAIN pm
    THEN mark_node_no_stop(pm, marked \cup {taxid}, pm[taxid])
    ELSE marked \cup {taxid}

\* marked_nodes after mark_node(taxid)
mark_node(pm, marked, taxid) == mark_node_from(pm, marked, taxid)

RECURSIVE rank_blob(_)
\* rank_data of get_rank_offset_data: the sorted ranks, each followed by \0
rank_blob(ranks) ==
    IF ranks = <<>> THEN <<>>
    ELSE Head(ranks) \o <<0>> \o rank_blob(Tail(ranks))

\* rank_offsets of get_rank_offset_data: rank -> rank_data.len() at the
\* time the rank is pushed
rank_offset_map(kr) ==
    LET sorted == SortedStrs(kr)
    IN [r \in kr |->
          LET k == CHOOSE i \in 1..Len(sorted) : sorted[i] = r
          IN Len(rank_blob(SubSeq(sorted, 1, k - 1)))]

get_rank_offset_data(kr) ==
    [rank_offsets |-> rank_offset_map(kr), rank_data |-> rank_blob(SortedStrs(kr))]

\* TaxonomyNode::default()
DefaultNode ==
    [parent_id |-> 0, first_child |-> 0, child_count |-> 0, name_offset |-> 0,
     rank_offset |-> 0, external_id |-> 0, godparent_id |-> 0]

\* node.parent_id taken from parent_map without the translation
internal_parent_id_untranslated(external_id_map, pm, external_node_id) ==
    pm[external_node_id]

\* node.parent_id: the internal ID already assigned to the external parent
internal_parent_id(external_id_map, pm, external_node_id) ==
    external_id_map[pm[external_node_id]]

\* first_child that forgets the nodes still waiting in the queue
first_child_index_no_queue(internal_node_id, queue_len) ==
    internal_node_id + 1

\* node.first_child, computed after the node itself was popped
first_child_index(internal_node_id, queue_len) ==
    internal_node_id + queue_len + 1

\* every child pushed, marked or not
enqueued_children_unfiltered(cm, marked, external_node_id) ==
    IF external_node_id \in DOMAIN cm
    THEN SortedSeq(cm[external_node_id])
    ELSE <<>>

\* the children pushed on the queue: sorted by external ID, marked ones only
enqueued_children(cm, marked, external_node_id) ==
    IF external_node_id \in DOMAIN cm
    THEN SelectSeq(SortedSeq(cm[external_node_id]), LAMBDA c : c \in marked)
    ELSE <<>>

RECURSIVE bfs_loop(_, _, _, _, _, _, _, _, _, _)
\* the while-let loop of convert_to_kraken_taxonomy
bfs_loop(pm, cm, nm, rm, marked, rank_offsets, bfs_queue, internal_node_id, external_id_map, acc) ==
    IF bfs_queue = <<>> THEN acc
    ELSE
      LET external_node_id == Head(bfs_queue)
          popped == Tail(bfs_queue)
          id == internal_node_id + 1
          emap == (external_node_id :> id) @@ external_id_map
          children == enqueued_children(cm, marked, external_node_id)
          node == [parent_id |-> internal_parent_id(emap, pm, external_node_id),
                   first_child |-> first_child_index(id, Len(popped)),
                   child_count |-> Len(children),
                   name_offset |-> Len(acc.name_data),
                   rank_offset |-> rank_offsets[rm[external_node_id]],
                   external_id |-> external_node_id,
                   godparent_id |-> 0]
      IN bfs_loop(pm, cm, nm, rm, marked, rank_offsets,
                  popped \o children, id, emap,
                  [nodes |-> Append(acc.nodes, node),
                   name_data |-> acc.name_data \o nm[external_node_id] \o <<0>>])

\* the Taxonomy convert_to_kraken_taxonomy returns (its two maps are empty)
convert_to_kraken_taxonomy(pm, cm, nm, rm, kr, marked) ==
    LET ranks == get_rank_offset_data(kr)
        res == bfs_loop(pm, cm, nm, rm, marked, ranks.rank_offsets,
                        <<1>>, 0, (0 :> 0) @@ (1 :> 1),
                        [nodes |-> <<DefaultNode>>, name_data |-> <<>>])
    IN [nodes |-> res.nodes, name_data |-> res.name_data,
        rank_data |-> ranks.rank_data]

\* ---------------------------------------------------------------- Taxonomy
\* the empty HashMap
EmptyMap == [x \in {} |-> 0]

\* self.nodes.len()
node_count(ns) == Len(ns)

\* internal IDs of the real nodes
InternalIds(ns) == 1..(node_count(ns) - 1)

RECURSIVE id_map_loop(_, _, _)
\* insert (node.external_id, i) for i = k .. len-1, later inserts overwrite
id_map_loop(ns, k, m) ==
    IF k >= Len(ns) THEN m
    ELSE id_map_loop(ns, k + 1, (ns[k + 1].external_id :> k) @@ m)

\* external_to_internal_id_map after generate_external_to_internal_id_map
generate_external_to_internal_id_map(ns) ==
    id_map_loop(ns, 0, (0 :> 0))

\* result of build_path_for_node: the cache, or a crash
\*   "panic"    index out of bounds in self.nodes[node_id]
\*   "overflow" a node is its own descendant: the recursion never returns
RECURSIVE build_path_for_node(_, _, _, _)
RECURSIVE build_children(_, _, _, _, _, _)
build_path_for_node(ns, node_id, res, current_path) ==
    IF res.status # "ok" THEN res
    ELSE IF node_id \in Range(current_path)
    THEN [status |-> "overflow", cache |-> res.cache]
    ELSE IF node_id >= Len(ns)
    THEN [status |-> "panic", cache |-> res.cache]
    ELSE LET path == Append(current_path, node_id)
             stored == [status |-> "ok", cache |-> (node_id :> path) @@ res.cache]
             node == ns[node_id + 1]
         IN build_children(ns, node.first_child, 0, node.child_count, stored, path)

\* for i in 0..child_count
build_children(ns, first_child_id, i, child_count, res, path) ==
    IF i >= child_count \/ res.status # "ok" THEN res
    ELSE build_children(ns, first_child_id, i + 1, child_count,
             build_path_for_node(ns, first_child_id + i, res, path), path)

\* build_path_cache: status and the new path_cache
build_path_cache(ns, id_map) ==
    IF 1 \in DOMAIN id_map
    THEN build_path_for_node(ns, id_map[1], [status |-> "ok", cache |-> EmptyMap], <<>>)
    ELSE [status |-> "ok", cache |-> EmptyMap]

RECURSIVE climb_to(_, _, _, _)
\* the while current > a loop of _is_a_ancestor_of_b: "true", "false", or
\* "hang" when fuel steps did not end it (current then repeats for ever)
climb_to(ns, a, current, fuel) ==
    IF current <= a THEN (IF current = a THEN "true" ELSE "false")
    ELSE IF current >= Len(ns) THEN "false"
    ELSE IF fuel = 0 THEN "hang"
    ELSE climb_to(ns, a, ns[current + 1].parent_id, fuel - 1)

\* _is_a_ancestor_of_b, the climbing ancestor test; fuel: number of
\* distinct values current can take
_is_a_ancestor_of_b(ns, a, b, fuel) ==
    IF a = 0 \/ b = 0 THEN "false" ELSE climb_to(ns, a, b, fuel)

\* is_a_ancestor_of_b that searches the path of a for b
is_a_ancestor_of_b_swapped(cache, a, b) ==
    IF a = 0 \/ b = 0 THEN FALSE
    ELSE IF a \in DOMAIN cache THEN b \in Range(cache[a])
    ELSE FALSE

\* is_a_ancestor_of_b
is_a_ancestor_of_b(cache, a, b) ==
    IF a = 0 \/ b = 0 THEN FALSE
    ELSE IF b \in DOMAIN cache THEN a \in Range(cache[b])
    ELSE FALSE

RECURSIVE common_prefix(_, _, _)
\* the while loop of lca: i after the loop
common_prefix(path_a, path_b, i) ==
    IF i < Len(path_a) /\ i < Len(path_b) /\ path_a[i + 1] = path_b[i + 1]
    THEN common_prefix(path_a, path_b, i + 1)
    ELSE i

\* lca without the early return for a == 0, b == 0 or a == b
lca_no_shortcut(cache, a, b) ==
    LET path_a == IF a \in DOMAIN cache THEN cache[a] ELSE <<0>>
        path_b == IF b \in DOMAIN cache THEN cache[b] ELSE <<0>>
        i == common_prefix(path_a, path_b, 0)
    IN IF i = 0 THEN 0
       ELSE IF i - 1 < Len(path_a) THEN path_a[i] ELSE 0

\* lca whose default path for a missing entry is the root [1]
lca_default_root(cache, a, b) ==
    IF a = 0 \/ b = 0 \/ a = b THEN (IF a # 0 THEN a ELSE b)
    ELSE
      LET path_a == IF a \in DOMAIN cache THEN cache[a] ELSE <<1>>
          path_b == IF b \in DOMAIN cache THEN cache[b] ELSE <<1>>
          i == common_prefix(path_a, path_b, 0)
      IN IF i = 0 THEN 0
         ELSE IF i - 1 < Len(path_a) THEN path_a[i] ELSE 0

\* lca, the cache-based LCA
lca(cache, a, b) ==
    IF a = 0 \/ b = 0 \/ a = b THEN (IF a # 0 THEN a ELSE b)
    ELSE
      LET path_a == IF a \in DOMAIN cache THEN cache[a] ELSE <<0>>
          path_b == IF b \in DOMAIN cache THEN cache[b] ELSE <<0>>
          i == common_prefix(path_a, path_b, 0)
      IN IF i = 0 THEN 0
         ELSE IF i - 1 < Len(path_a) THEN path_a[i] ELSE 0

\* parent of internal ID x, x itself beyond the node array
parent_or_self(ns, x) == IF x < Len(ns) THEN ns[x + 1].parent_id ELSE x

\* parent of internal ID x, 0 beyond the node array (nodes.get(..).map_or(0, ..))
parent_or_zero(ns, x) == IF x < Len(ns) THEN ns[x + 1].parent_id ELSE 0

RECURSIVE climb(_, _, _, _)
\* the while a != b loop; fuel bounds the steps, -1 when it runs out
climb(ns, a, b, fuel) ==
    IF a = b THEN a
    ELSE IF fuel = 0 THEN -1
    ELSE IF a > b THEN climb(ns, parent_or_zero(ns, a), b, fuel - 1)
    ELSE climb(ns, a, parent_or_zero(ns, b), fuel - 1)

RECURSIVE climb_both(_, _, _, _)
\* a loop that replaces both a and b by their parents
climb_both(ns, a, b, fuel) ==
    IF a = b THEN a
    ELSE IF fuel = 0 THEN -1
    ELSE climb_both(ns, parent_or_zero(ns, a), parent_or_zero(ns, b), fuel - 1)

lowest_common_ancestor_lockstep(ns, a, b) ==
    IF a = 0 \/ b = 0 \/ a = b THEN (IF a # 0 THEN a ELSE b)
    ELSE climb_both(ns, a, b, 2 * (a + b) + 2)

\* lowest_common_ancestor, the pointer-climbing LCA (-1: does not terminate
\* within the model's step budget)
lowest_common_ancestor(ns, a, b) ==
    IF a = 0 \/ b = 0 \/ a = b THEN (IF a # 0 THEN a ELSE b)
    ELSE climb(ns, a, b, 2 * (a + b) + 2)

\* ---------------------------------------------------------------- binary codec
\* Taxonomy::MAGIC = b"K2TAXDAT"
MAGIC == <<75, 50, 84, 65, 88, 68, 65, 84>>

\* the fields of TaxonomyNode in declaration order
NodeFields == <<"parent_id", "first_child", "child_count", "name_offset",
                "rank_offset", "external_id", "godparent_id">>

\* a decoded u64 of 2^31 - 1 or more: every such value is larger than any
\* file or node array of the model.  The ones that arise are 2^56 or more
\* (a non-zero top byte), more than a 64-bit address space holds.
Huge == 2147483647

\* u64::to_le_bytes, for values below 2^31
to_le_bytes(x) ==
    <<x % 256, (x \div 256) % 256, (x \div 65536) % 256, (x \div 16777216) % 256,
      0, 0, 0, 0>>

Reverse(s) == [i \in 1..Len(s) |-> s[Len(s) + 1 - i]]

\* the u64 a transmute reads from 8 bytes of memory: native byte order
from_ne_bytes(bs, endian) ==
    LET w == IF endian = "little" THEN bs ELSE Reverse(bs)
    IN IF w[5] # 0 \/ w[6] # 0 \/ w[7] # 0 \/ w[8] # 0 \/ w[4] >= 128
       THEN Huge
       ELSE w[1] + 256 * w[2] + 65536 * w[3] + 16777216 * w[4]

\* the k-th 8-byte slot of a buffer, k from 1
slot(buffer, k) == SubSeq(buffer, 8 * (k - 1) + 1, 8 * k)

\* A build fixes what the two transmutes of from_file mean: the byte order
\* of the target, and where the compiler places each field of the tuple
\* (u64, u64, u64) and of the struct TaxonomyNode, neither of which has a
\* declared representation.  layout[k] is the slot of the k-th field.
DeclaredHeader == <<1, 2, 3>>
DeclaredNode == <<1, 2, 3, 4, 5, 6, 7>>
Builds ==
    { [endian |-> "little", header_layout |-> DeclaredHeader, node_layout |-> DeclaredNode],
      [endian |-> "big", header_layout |-> DeclaredHeader, node_layout |-> DeclaredNode],
      [endian |-> "little", header_layout |-> <<3, 2, 1>>, node_layout |-> DeclaredNode],
      [endian |-> "little", header_layout |-> DeclaredHeader,
       node_layout |-> <<6, 2, 3, 4, 5, 1, 7>>] }

\* the 56 bytes write_to_disk writes for one node
node_bytes(node) ==
    to_le_bytes(node.parent_id) \o to_le_bytes(node.first_child)
      \o to_le_bytes(node.child_count) \o to_le_bytes(node.name_offset)
      \o to_le_bytes(node.rank_offset) \o to_le_bytes(node.external_id)
      \o to_le_bytes(node.godparent_id)

RECURSIVE nodes_bytes(_)
nodes_bytes(ns) ==
    IF ns = <<>> THEN <<>> ELSE node_bytes(Head(ns)) \o nodes_bytes(Tail(ns))

\* the file write_to_disk leaves
write_to_disk(ns, nd, rd) ==
    MAGIC \o to_le_bytes(Len(ns)) \o to_le_bytes(Len(nd)) \o to_le_bytes(Len(rd))
      \o nodes_bytes(ns) \o nd \o rd

\* transmute::<[u8; 24], (u64, u64, u64)>
transmute_header(buffer, bld) ==
    [k \in 1..3 |-> from_ne_bytes(slot(buffer, bld.header_layout[k]), bld.endian)]

\* transmute::<[u8; 56], TaxonomyNode>
transmute_node(buffer, bld) ==
    [f \in Range(NodeFields) |->
        LET k == CHOOSE i \in 1..7 : NodeFields[i] = f
        IN from_ne_bytes(slot(buffer, bld.node_layout[k]), bld.endian)]

RECURSIVE from_file_map(_, _, _)
\* from_file's own ID map loop: no entry for 0 is inserted first
from_file_map(ns, k, m) ==
    IF k >= Len(ns) THEN m
    ELSE from_file_map(ns, k + 1, (ns[k + 1].external_id :> k) @@ m)

\* a from_file that did not return a Taxonomy: status "err" (Err returned)
\* or "panic" (the call does not return: Vec::with_capacity or vec![0; n]
\* panics with a capacity overflow, or aborts when the allocation fails;
\* usize is 64 bits wide)
NoTaxonomy(status) ==
    [status |-> status, nodes |-> <<>>, name_data |-> <<>>, rank_data |-> <<>>,
     external_to_internal_id_map |-> EmptyMap, path_cache |-> EmptyMap]

\* from_file on a file holding bytes, in a program built as bld
from_file(bytes, bld) ==
    IF Len(bytes) < 8 THEN NoTaxonomy("err")
    ELSE IF SubSeq(bytes, 1, 8) # MAGIC THEN NoTaxonomy("err")
    ELSE IF Len(bytes) < 32 THEN NoTaxonomy("err")
    ELSE
      LET header == transmute_header(SubSeq(bytes, 9, 32), bld)
          count == header[1]
          name_data_len == header[2]
          rank_data_len == header[3]
      IN \* Vec::with_capacity(node_count): capacity overflow
         IF count = Huge THEN NoTaxonomy("panic")
         ELSE IF Len(bytes) < 32 + 56 * count THEN NoTaxonomy("err")
         ELSE IF name_data_len = Huge THEN NoTaxonomy("panic")
         ELSE IF Len(bytes) < 32 + 56 * count + name_data_len THEN NoTaxonomy("err")
         ELSE IF rank_data_len = Huge THEN NoTaxonomy("panic")
         ELSE IF Len(bytes) < 32 + 56 * count + name_data_len + rank_data_len
              THEN NoTaxonomy("err")
         ELSE
           LET ns == [i \in 1..count |->
                        transmute_node(SubSeq(bytes, 32 + 56 * (i - 1) + 1, 32 + 56 * i), bld)]
               names_at == 32 + 56 * count
               nd == SubSeq(bytes, names_at + 1, names_at + name_data_len)
               rd == SubSeq(bytes, names_at + name_data_len + 1,
                            names_at + name_data_len + rank_data_len)
               id_map == from_file_map(ns, 0, EmptyMap)
               built == build_path_cache(ns, id_map)
           IN IF built.status # "ok" THEN NoTaxonomy("panic")
              ELSE [status |-> "ok", nodes |-> ns, name_data |-> nd, rank_data |-> rd,
                    external_to_internal_id_map |-> id_map, path_cache |-> built.cache]

\* ---------------------------------------------------------------- actions
\* no query made yet
NoQuery ==
    [op |-> "none", a |-> 0, b |-> 0, cur_a |-> 0, cur_b |-> 0,
     pc |-> "done", result |-> 0, answer |-> "none"]

\* from_ncbi on well-formed files: the maps of the tree, marked_nodes = {1}
Init ==
    /\ parent_map \in ParentMaps
    /\ child_map = ChildMapOf(parent_map)
    /\ name_map = [n \in ExternalIds |-> NameOf(n)]
    /\ rank_map = [n \in ExternalIds |-> RankOf(n)]
    /\ known_ranks = {RankOf(n) : n \in ExternalIds}
    /\ marked_nodes = {1}
    /\ passed = {}
    /\ calls = 0
    /\ converted = FALSE
    /\ nodes = <<>>
    /\ name_data = <<>>
    /\ rank_data = <<>>
    /\ external_to_internal_id_map = EmptyMap
    /\ path_cache = EmptyMap
    /\ cache_built = "no"
    /\ file = <<>>
    /\ written = FALSE
    /\ build = [endian |-> "little", header_layout |-> DeclaredHeader,
                node_layout |-> DeclaredNode]
    /\ loaded = NoTaxonomy("none")
    /\ query = NoQuery

\* mark_node(taxid), called while the NCBITaxonomy is being prepared
MarkNode(taxid) ==
    /\ ~converted
    /\ calls < MaxMarks
    /\ marked_nodes' = mark_node(parent_map, marked_nodes, taxid)
    /\ passed' = passed \cup {taxid}
    /\ calls' = calls + 1
    /\ UNCHANGED <<ncbi_vars, converted, taxo_vars, external_to_internal_id_map,
                   path_cache, cache_built, disk_vars, query>>

\* let taxo = ncbi.convert_to_kraken_taxonomy()
Convert ==
    /\ ~converted
    /\ LET t == convert_to_kraken_taxonomy(parent_map, child_map, name_map,
                                           rank_map, known_ranks, marked_nodes)
       IN /\ nodes' = t.nodes
          /\ name_data' = t.name_data
          /\ rank_data' = t.rank_data
    /\ external_to_internal_id_map' = EmptyMap
    /\ path_cache' = EmptyMap
    /\ converted' = TRUE
    \* the record of the preparation ends here
    /\ passed' = {}
    /\ calls' = 0
    /\ UNCHANGED <<ncbi_vars, marked_nodes, cache_built, disk_vars, query>>

\* taxo.generate_external_to_internal_id_map()
GenerateMap ==
    /\ converted
    /\ external_to_internal_id_map' = generate_external_to_internal_id_map(nodes)
    /\ UNCHANGED <<ncbi_vars, marked_nodes, passed, calls, converted, taxo_vars,
                   path_cache, cache_built, disk_vars, query>>

\* taxo.build_path_cache()
BuildPathCache ==
    /\ converted
    /\ LET res == build_path_cache(nodes, external_to_internal_id_map)
       IN /\ res.status = "ok"
          /\ path_cache' = res.cache
    /\ cache_built' = IF external_to_internal_id_map = EmptyMap
                      THEN "unmapped" ELSE "mapped"
    /\ UNCHANGED <<ncbi_vars, marked_nodes, passed, calls, converted, taxo_vars,
                   external_to_internal_id_map, disk_vars, query>>

\* taxo.write_to_disk(filename)
WriteToDisk ==
    /\ converted
    /\ file' = write_to_disk(nodes, name_data, rank_data)
    /\ written' = TRUE
    /\ UNCHANGED <<ncbi_vars, marked_nodes, passed, calls, converted, taxo_vars,
                   external_to_internal_id_map, path_cache, cache_built,
                   build, loaded, query>>

\* Taxonomy::from_file(filename) in a program built as bld
FromFile(bld) ==
    /\ written
    /\ build' = bld
    /\ loaded' = from_file(file, bld)
    /\ UNCHANGED <<ncbi_vars, marked_nodes, passed, calls, converted, taxo_vars,
                   external_to_internal_id_map, path_cache, cache_built,
                   file, written, query>>

Next ==
    \/ \E taxid \in TaxIds : MarkNode(taxid)
    \/ Convert
    \/ GenerateMap
    \/ BuildPathCache
    \/ WriteToDisk
    \/ \E bld \in Builds : FromFile(bld)

Spec == Init /\ [][Next]_vars

\* ---------------------------------------------------------------- queries
\* The fields nodes and path_cache of Taxonomy are public, so the queries can
\* be put to a Taxonomy holding any node array and any path cache.

\* arguments of a query: the internal IDs of the largest node array and one
\* ID beyond every array, which no path cache holds either
QueryIds == 0 .. MaxQueryNode + 1

\* node arrays with internal IDs 0..n: node 0 is the default node, every
\* other parent_id is any ID, also one at or above the node's own or beyond
\* the array
NodeArrays ==
    UNION {{[i \in 1 .. n + 1 |->
               IF i = 1 THEN DefaultNode
               ELSE [DefaultNode EXCEPT !.parent_id = p[i - 1]]] :
            p \in [1 .. n -> QueryIds]} : n \in 0 .. MaxQueryNode}

\* the internal IDs a path cache may hold a path for, and the IDs on a path
CachedIds == 1 .. 2
PathIds == 0 .. 2

\* paths of up to MaxPathLen IDs, the empty path included
Paths == UNION {[1 .. n -> PathIds] : n \in 0 .. MaxPathLen}

\* path caches: a path for any of the cached IDs
Caches == UNION {[D -> Paths] : D \in SUBSET CachedIds}

\* a Taxonomy assembled through its public fields; lca and
\* is_a_ancestor_of_b read only path_cache, _is_a_ancestor_of_b and
\* lowest_common_ancestor read only nodes, so one of the two is arbitrary
\* at a time
InitQuery ==
    /\ parent_map = [n \in ExternalIds |-> n - 1]
    /\ child_map = ChildMapOf(parent_map)
    /\ name_map = [n \in ExternalIds |-> NameOf(n)]
    /\ rank_map = [n \in ExternalIds |-> RankOf(n)]
    /\ known_ranks = {RankOf(n) : n \in ExternalIds}
    /\ marked_nodes = {1}
    /\ passed = {}
    /\ calls = 0
    /\ converted = FALSE
    /\ \/ nodes \in NodeArrays /\ path_cache = EmptyMap
       \/ nodes = <<DefaultNode>> /\ path_cache \in Caches
    /\ name_data = <<>>
    /\ rank_data = <<>>
    /\ external_to_internal_id_map = EmptyMap
    /\ cache_built = "no"
    /\ file = <<>>
    /\ written = FALSE
    /\ build = [endian |-> "little", header_layout |-> DeclaredHeader,
                node_layout |-> DeclaredNode]
    /\ loaded = NoTaxonomy("none")
    /\ query = NoQuery

\* everything but the query record: the queries take &self and leave the
\* Taxonomy as it is, so a behaviour follows one query from its call on
taxonomy_state == <<ncbi_vars, marked_nodes, passed, calls, converted,
                    taxo_vars, external_to_internal_id_map, path_cache,
                    cache_built, disk_vars>>

\* a call of lca(a, b)
LcaQuery(a, b) ==
    /\ query.op = "none"
    /\ query' = [NoQuery EXCEPT !.op = "lca", !.a = a, !.b = b,
                                !.result = lca(path_cache, a, b)]
    /\ UNCHANGED taxonomy_state

\* a call of is_a_ancestor_of_b(a, b)
IsAncestorQuery(a, b) ==
    /\ query.op = "none"
    /\ query' = [NoQuery EXCEPT !.op = "is_a_ancestor_of_b", !.a = a, !.b = b,
                    !.answer = IF is_a_ancestor_of_b(path_cache, a, b)
                               THEN "true" ELSE "false"]
    /\ UNCHANGED taxonomy_state

\* a call of _is_a_ancestor_of_b(a, b); a call whose loop never ends stays
\* at pc "hang"
ClimbAncestorQuery(a, b) ==
    /\ query.op = "none"
    /\ LET r == _is_a_ancestor_of_b(nodes, a, b, MaxQueryNode + 2)
       IN query' = [NoQuery EXCEPT !.op = "_is_a_ancestor_of_b", !.a = a,
                       !.b = b, !.answer = r,
                       !.pc = IF r = "hang" THEN "hang" ELSE "done"]
    /\ UNCHANGED taxonomy_state

\* lowest_common_ancestor(a, b) up to its loop: the early return, or the
\* loop entered with the arguments in cur_a, cur_b
LowestCommonAncestorCall(a, b) ==
    /\ query.op = "none"
    /\ query' = IF a = 0 \/ b = 0 \/ a = b
                THEN [NoQuery EXCEPT !.op = "lowest_common_ancestor",
                         !.a = a, !.b = b, !.cur_a = a, !.cur_b = b,
                         !.result = IF a # 0 THEN a ELSE b]
                ELSE [NoQuery EXCEPT !.op = "lowest_common_ancestor",
                         !.a = a, !.b = b, !.cur_a = a, !.cur_b = b,
                         !.pc = "loop"]
    /\ UNCHANGED taxonomy_state

\* one pass of the while a != b loop, and the return once a == b
LowestCommonAncestorStep ==
    /\ query.pc = "loop"
    /\ LET a == IF query.cur_a > query.cur_b
                THEN parent_or_zero(nodes, query.cur_a) ELSE query.cur_a
           b == IF query.cur_a > query.cur_b
                THEN query.cur_b ELSE parent_or_zero(nodes, query.cur_b)
       IN query' = [query EXCEPT !.cur_a = a, !.cur_b = b,
                                 !.pc = IF a = b THEN "done" ELSE "loop",
                                 !.result = IF a = b THEN a ELSE 0]
    /\ UNCHANGED taxonomy_state

NextQuery ==
    \/ \E a, b \in QueryIds : LcaQuery(a, b)
    \/ \E a, b \in QueryIds : IsAncestorQuery(a, b)
    \/ \E a, b \in QueryIds : ClimbAncestorQuery(a, b)
    \/ \E a, b \in QueryIds : LowestCommonAncestorCall(a, b)
    \/ LowestCommonAncestorStep

SpecQuery == InitQuery /\ [][NextQuery]_vars

\* a call that is in its loop goes on running: the loop of
\* lowest_common_ancestor takes its next pass
SpecQueryFair == SpecQuery /\ WF_vars(LowestCommonAncestorStep)

\* ---------------------------------------------------------------- files
\* from_file takes any file; the ones put to it here are the file
\* write_to_disk leaves for a compacted Taxonomy and damaged copies of it.

\* the copies of file f (node_count c, name_data_len nl): cut short inside
\* or after the magic, the header, the node records, the names and the ranks;
\* a byte of the magic zeroed; the top byte of a header field set to 0x80
DamagedFiles(f, c, nl) ==
    {f}
    \cup {SubSeq(f, 1, n) : n \in {0, 4, 8, 20, 32, 60, 32 + 56 * c,
                                   32 + 56 * c + nl, Len(f) - 1}}
    \cup {[f EXCEPT ![i] = 0] : i \in {1, 8}}
    \cup {[f EXCEPT ![i] = 128] : i \in {16, 24, 32}}

\* a Taxonomy compacted from a tree with the ancestors of one node marked,
\* written to disk, and the file found damaged or intact
InitFile ==
    /\ parent_map \in ParentMaps
    /\ child_map = ChildMapOf(parent_map)
    /\ name_map = [n \in ExternalIds |-> NameOf(n)]
    /\ rank_map = [n \in ExternalIds |-> RankOf(n)]
    /\ known_ranks = {RankOf(n) : n \in ExternalIds}
    /\ \E taxid \in ExternalIds : marked_nodes = mark_node(parent_map, {1}, taxid)
    /\ passed = {}
    /\ calls = 0
    /\ converted = TRUE
    /\ LET t == convert_to_kraken_taxonomy(parent_map, child_map, name_map,
                                           rank_map, known_ranks, marked_nodes)
       IN /\ nodes = t.nodes
          /\ name_data = t.name_data
          /\ rank_data = t.rank_data
    /\ external_to_internal_id_map = EmptyMap
    /\ path_cache = EmptyMap
    /\ cache_built = "no"
    /\ file \in DamagedFiles(write_to_disk(nodes, name_data, rank_data),
                             Len(nodes), Len(name_data))
    /\ written = TRUE
    /\ build = [endian |-> "little", header_layout |-> DeclaredHeader,
                node_layout |-> DeclaredNode]
    /\ loaded = NoTaxonomy("none")
    /\ query = NoQuery

NextFile == \E bld \in Builds : FromFile(bld)

SpecFile == InitFile /\ [][NextFile]_vars

\* ---------------------------------------------------------------- sanity
TypeOK ==
    /\ marked_nodes \subseteq TaxIds
    /\ 1 \in marked_nodes
    /\ cache_built \in {"no", "mapped", "unmapped"}
    /\ loaded.status \in {"none", "ok", "err", "panic"}

\* ---------------------------------------------------------------- properties
\* the node with internal ID i
Node(i) == nodes[i + 1]

\* the in-memory Taxonomy has its ID map generated and, after that, its
\* path cache built
Built == converted /\ cache_built = "mapped"

\* the internal IDs first_child .. first_child + child_count - 1 of node v
ChildRange(v) == Node(v).first_child .. (Node(v).first_child + Node(v).child_count - 1)

\* C1 (LCA agreement): on the Taxonomy produced by convert_to_kraken_taxonomy,
\* with the ID map generated and the path cache built, lca(a, b) and
\* lowest_common_ancestor(a, b) return the same internal ID for all internal
\* IDs a, b in 1..node_count()-1.
C1_LcaAgreement ==
    Built =>
        \A a, b \in InternalIds(nodes) :
            lca(path_cache, a, b) = lowest_common_ancestor(nodes, a, b)

\* two nodes, neither an ancestor of the other, whose LCA is not the root
C1_Witness ==
    /\ Built
    /\ \E a, b \in InternalIds(nodes) :
          /\ lca(path_cache, a, b) \notin {0, 1, a, b}
          /\ lowest_common_ancestor(nodes, a, b) = lca(path_cache, a, b)

\* C2 (contiguity): in the array convert_to_kraken_taxonomy returns, for every
\* node v with child_count > 0 the internal IDs first_child .. first_child +
\* child_count - 1 are exactly the nodes whose parent_id is v, and the ranges
\* of two different nodes never overlap.
C2_Contiguity ==
    converted =>
        /\ \A v \in 0..(node_count(nodes) - 1) :
              Node(v).child_count > 0 =>
                  ChildRange(v) = {c \in InternalIds(nodes) : Node(c).parent_id = v}
        /\ \A v, w \in 0..(node_count(nodes) - 1) :
              (v # w /\ Node(v).child_count > 0 /\ Node(w).child_count > 0)
                  => ChildRange(v) \cap ChildRange(w) = {}

\* two nodes with children, the second with a sibling queued behind it
C2_Witness ==
    /\ converted
    /\ \E v, w \in InternalIds(nodes) :
          /\ v < w
          /\ Node(v).child_count > 0
          /\ Node(w).child_count > 0
          /\ Node(w).first_child > w + 1

\* C3 (monotonicity): every non-root node (internal ID i >= 2) has parent_id
\* strictly smaller than i, and the root (internal ID 1) has parent_id 0.
C3_Monotonicity ==
    converted =>
        /\ Node(1).parent_id = 0
        /\ \A i \in 2..(node_count(nodes) - 1) : Node(i).parent_id < i

\* a node whose external ID is smaller than the external ID of its parent
C3_Witness ==
    /\ converted
    /\ \E i \in 2..(node_count(nodes) - 1) :
          /\ Node(i).parent_id >= 1
          /\ Node(i).external_id < Node(Node(i).parent_id).external_id

RECURSIVE parent_chain(_, _, _)
\* the internal IDs met by following parent_id from v, listed root first
parent_chain(ns, v, fuel) ==
    IF v = 0 \/ v >= Len(ns) \/ fuel = 0 THEN <<>>
    ELSE Append(parent_chain(ns, ns[v + 1].parent_id, fuel - 1), v)

\* cache has, for every internal ID of ns, the root-first parent chain
PathCacheExact(ns, cache) ==
    \A v \in InternalIds(ns) :
        v \in DOMAIN cache /\ cache[v] = parent_chain(ns, v, Len(ns))

\* C4 (path cache): after build_path_cache has run on a Taxonomy obtained from
\* convert_to_kraken_taxonomy (its ID map generated first, as its callers
\* must) or from from_file, path_cache has an entry for every internal ID v in
\* 1..node_count()-1, and path_cache[v] is the sequence of internal IDs from
\* the root to v obtained by following parent_id.
C4_PathCacheExact ==
    /\ Built => PathCacheExact(nodes, path_cache)
    /\ loaded.status = "ok" => PathCacheExact(loaded.nodes, loaded.path_cache)

\* the part of the above that holds: the Taxonomy compacted in this program
PathCacheExactInMemory == Built => PathCacheExact(nodes, path_cache)

\* build_path_cache run before the ID map is generated finds no root and
\* leaves the cache empty
PathCacheEmptyWithoutIdMap ==
    (converted /\ cache_built = "unmapped") => path_cache = EmptyMap

\* C5 (ancestor consistency): for all internal IDs a, b of a built Taxonomy,
\* is_a_ancestor_of_b(a, b) is true iff a occurs in path_cache[b] iff
\* lca(a, b) = a.
C5_AncestorConsistency ==
    Built =>
        \A a, b \in InternalIds(nodes) :
            /\ is_a_ancestor_of_b(path_cache, a, b)
                  <=> (b \in DOMAIN path_cache /\ a \in Range(path_cache[b]))
            /\ is_a_ancestor_of_b(path_cache, a, b) <=> (lca(path_cache, a, b) = a)

\* a proper ancestor below the root, and a pair where neither is an ancestor
C5_Witness ==
    /\ Built
    /\ \E a, b \in InternalIds(nodes) :
          a # 1 /\ a # b /\ is_a_ancestor_of_b(path_cache, a, b)
    /\ \E a, b \in InternalIds(nodes) :
          /\ ~is_a_ancestor_of_b(path_cache, a, b)
          /\ ~is_a_ancestor_of_b(path_cache, b, a)

RECURSIVE reach_marked(_, _, _)
\* the marked nodes reachable from S through marked children only
reach_marked(pm, marked, S) ==
    LET more == S \cup {c \in DOMAIN pm : pm[c] \in S /\ c \in marked}
    IN IF more = S THEN S ELSE reach_marked(pm, marked, more)

\* C6 (compaction): after any mark_node calls followed by
\* convert_to_kraken_taxonomy, nodes[0] is the all-zero sentinel, nodes[1] is
\* the root (external_id 1), and the external IDs of nodes[1..] are, each
\* exactly once, the marked nodes reachable from external root 1 through
\* marked children only.
C6_Compaction ==
    converted =>
        /\ Node(0) = DefaultNode
        /\ Node(1).external_id = 1
        /\ \A i, j \in InternalIds(nodes) :
              Node(i).external_id = Node(j).external_id => i = j
        /\ {Node(i).external_id : i \in InternalIds(nodes)}
              = reach_marked(parent_map, marked_nodes, {1})

\* some node of the tree is left out, some is kept, and a marked ID outside
\* the tree is not in the result
C6_Witness ==
    /\ converted
    /\ node_count(nodes) >= 3
    /\ ExternalIds \ marked_nodes # {}
    /\ UnknownId \in marked_nodes

RECURSIVE chain_of(_, _)
\* t and the nodes on its parent chain up to the root
chain_of(pm, t) ==
    IF t \in DOMAIN pm /\ t # 1 THEN {t} \cup chain_of(pm, pm[t]) ELSE {t}

\* C7 (marked closure): after any sequence of mark_node calls, marked_nodes
\* is the root 1 together with every taxid passed to mark_node and every node
\* on its parent chain up to the root; every marked node other than the root
\* has its parent marked.
C7_MarkedClosure ==
    /\ ~converted =>
          marked_nodes = {1} \cup UNION {chain_of(parent_map, t) : t \in passed}
    /\ \A m \in marked_nodes \ {1} :
          m \in DOMAIN parent_map => parent_map[m] \in marked_nodes

\* a node was passed whose parent is neither the root nor passed itself
C7_Witness ==
    /\ calls >= 2
    /\ \E t \in passed \cap ExternalIds :
          /\ t # 1
          /\ parent_map[t] # 1
          /\ parent_map[t] \notin passed
          /\ parent_map[t] \in marked_nodes

\* C8 (round trip): write_to_disk followed by from_file yields a Taxonomy with
\* the same nodes, name_data and rank_data, and with the path_cache the
\* original has once it is rebuilt.
C8_RoundTrip ==
    loaded.status # "none" =>
        /\ loaded.status = "ok"
        /\ loaded.nodes = nodes
        /\ loaded.name_data = name_data
        /\ loaded.rank_data = rank_data
        /\ loaded.path_cache =
              build_path_cache(nodes, generate_external_to_internal_id_map(nodes)).cache

\* what does hold of the codec: a program whose build reads little-endian
\* words and keeps the declared field order gets back what was written
RoundTripDeclaredLittle ==
    (loaded.status # "none" /\ build.endian = "little"
        /\ build.header_layout = DeclaredHeader /\ build.node_layout = DeclaredNode)
    => /\ loaded.status = "ok"
       /\ loaded.nodes = nodes
       /\ loaded.name_data = name_data
       /\ loaded.rank_data = rank_data
       /\ PathCacheExact(loaded.nodes, loaded.path_cache)

\* the step is a call mark_node(t)
IsMarkCall(t) == calls' = calls + 1 /\ passed' = passed \cup {t}

\* C9 (mark idempotence): after any call mark_node(t), calling mark_node(t)
\* again leaves marked_nodes as the first call left it.
C9_MarkIdempotent ==
    [][\A t \in TaxIds :
          IsMarkCall(t) => mark_node(parent_map, marked_nodes', t) = marked_nodes']_vars

\* mark_node was called twice with one taxid that lies two levels below the root
C9_Witness ==
    /\ calls = 2
    /\ \E t \in ExternalIds :
          /\ passed = {t}
          /\ t # 1
          /\ parent_map[t] # 1
          /\ marked_nodes = chain_of(parent_map, t)

\* C10 as stated: if some ancestor of d is already in marked_nodes,
\* mark_node(d) changes marked_nodes only by adding d.
C10_AncestorMarkedAddsOnlyD ==
    [][\A d \in TaxIds :
          (IsMarkCall(d) /\ (chain_of(parent_map, d) \ {d}) \cap marked_nodes # {})
              => marked_nodes' = marked_nodes \cup {d}]_vars

\* C10 (amended): if the parent of d is already in marked_nodes, mark_node(d)
\* changes marked_nodes only by adding d.
C10_ParentMarkedAddsOnlyD ==
    [][\A d \in TaxIds :
          (IsMarkCall(d) /\ d \in DOMAIN parent_map /\ parent_map[d] \in marked_nodes)
              => marked_nodes' = marked_nodes \cup {d}]_vars

\* two calls, one with a node below the root and one with a child of it
C10_Witness ==
    /\ calls = 2
    /\ \E p, d \in ExternalIds :
          /\ p # 1
          /\ parent_map[d] = p
          /\ passed = {p, d}
          /\ marked_nodes = chain_of(parent_map, d)

\* C11 (identities of the queries): on any Taxonomy lca(x, x) = x,
\* lca(0, y) = y and lca(x, 0) = x for every x and y, and is_a_ancestor_of_b
\* and _is_a_ancestor_of_b both return false whenever either argument is 0.
C11_QueryIdentities ==
    /\ (query.op = "lca" /\ query.a = query.b) => query.result = query.a
    /\ (query.op = "lca" /\ query.a = 0) => query.result = query.b
    /\ (query.op = "lca" /\ query.b = 0) => query.result = query.a
    /\ (/\ query.op \in {"is_a_ancestor_of_b", "_is_a_ancestor_of_b"}
        /\ (query.a = 0 \/ query.b = 0)) => query.answer = "false"

\* lca(x, x) asked for a non-zero x that has no path in the cache
C11_Witness ==
    /\ query.op = "lca"
    /\ query.a = query.b
    /\ query.a # 0
    /\ query.a \notin DOMAIN path_cache
    /\ path_cache # EmptyMap
    /\ query.result = query.a

\* C12 (lca of unknown nodes, as claimed): whenever a or b is an internal ID
\* that has no path_cache entry, lca(a, b) returns 0.
C12_UnknownYieldsZero ==
    (/\ query.op = "lca"
     /\ (query.a \notin DOMAIN path_cache \/ query.b \notin DOMAIN path_cache))
        => query.result = 0

\* C12 (lca of unknown nodes, past the early return): whenever a and b are
\* distinct non-zero IDs and a or b has no path_cache entry, lca(a, b)
\* returns 0.
C12_DistinctUnknownYieldsZero ==
    (/\ query.op = "lca"
     /\ query.a # 0 /\ query.b # 0 /\ query.a # query.b
     /\ (query.a \notin DOMAIN path_cache \/ query.b \notin DOMAIN path_cache))
        => query.result = 0

\* lca of a node whose cached path starts at a non-zero ID and of a
\* different, non-zero ID without a path
C12_Witness ==
    /\ query.op = "lca"
    /\ query.a \in DOMAIN path_cache
    /\ Len(path_cache[query.a]) > 1
    /\ path_cache[query.a][1] # 0
    /\ query.b # 0 /\ query.b # query.a
    /\ query.b \notin DOMAIN path_cache
    /\ query.result = 0

\* the header fields a file declares, in the format write_to_disk writes:
\* little-endian u64s in the order node_count, name_data_len, rank_data_len
declared_header(bytes) ==
    [k \in 1..3 |-> from_ne_bytes(slot(SubSeq(bytes, 9, 32), k), "little")]

\* the file's first 8 bytes are not the magic, or the file ends before the
\* header, the declared node records and the two declared blobs
Malformed(bytes) ==
    \/ Len(bytes) < 8
    \/ SubSeq(bytes, 1, 8) # MAGIC
    \/ Len(bytes) < 32
    \/ LET h == declared_header(bytes)
       IN \/ h[1] = Huge \/ h[2] = Huge \/ h[3] = Huge
          \/ Len(bytes) < 32 + 56 * h[1] + h[2] + h[3]

\* the build that reads a file as write_to_disk wrote it
OrdinaryBuild ==
    build = [endian |-> "little", header_layout |-> DeclaredHeader,
             node_layout |-> DeclaredNode]

\* C13 (malformed files): in a program that reads the header as it was
\* written (little-endian, fields in declared order), from_file returns an
\* error, and neither a Taxonomy nor a panic, whenever the file's first 8
\* bytes differ from the magic or the file ends before the header, the
\* declared node_count records and the two declared-length blobs.
C13_MalformedIsErr ==
    (OrdinaryBuild /\ loaded.status # "none" /\ Malformed(file))
        => loaded.status = "err"

\* what does hold in that program: a malformed file never loads as a
\* Taxonomy, and it is an error unless a declared count or length is huge
MalformedNeverLoads ==
    (OrdinaryBuild /\ loaded.status # "none" /\ Malformed(file))
        => /\ loaded.status # "ok"
           /\ (/\ Len(file) >= 32
               /\ SubSeq(file, 1, 8) = MAGIC
               /\ Huge \in Range(declared_header(file))) \/ loaded.status = "err"

\* in any build: a file without the magic, or shorter than the header, is
\* an error
BadMagicOrShortHeaderIsErr ==
    (/\ loaded.status # "none"
     /\ (Len(file) < 32 \/ SubSeq(file, 1, 8) # MAGIC)) => loaded.status = "err"

\* parent_id < id for every node with an internal ID of 1 or more
Monotone(ns) == \A i \in 1 .. Len(ns) - 1 : ns[i + 1].parent_id < i

\* v and the internal IDs met by following parent_id from v
ancestors_or_self(ns, v) ==
    IF v = 0 THEN {} ELSE {v} \cup Range(parent_chain(ns, v, Len(ns)))

\* a pass of the loop replaces the strictly larger of a, b by a strictly
\* smaller value and leaves the other one alone
LoopPassDecreases ==
    (Monotone(nodes) /\ query.pc = "loop") =>
        /\ query.cur_a # query.cur_b
        /\ query'.op = query.op /\ query'.a = query.a /\ query'.b = query.b
        /\ IF query.cur_a > query.cur_b
           THEN query'.cur_a < query.cur_a /\ query'.cur_b = query.cur_b
           ELSE query'.cur_b < query.cur_b /\ query'.cur_a = query.cur_a

\* the value a call that went through the loop returns is 0 or a common
\* ancestor of both arguments
ConvergesOnCommonAncestor ==
    (/\ Monotone(nodes)
     /\ query.op = "lowest_common_ancestor" /\ query.pc = "done"
     /\ query.a # 0 /\ query.b # 0 /\ query.a # query.b) =>
        \/ query.result = 0
        \/ /\ query.result \in ancestors_or_self(nodes, query.a)
           /\ query.result \in ancestors_or_self(nodes, query.b)

\* C14 (termination of lowest_common_ancestor): on a Taxonomy with
\* parent_id < id for every node, lowest_common_ancestor(a, b) terminates for
\* every pair of arguments, IDs beyond the node array included: each pass of
\* the loop replaces the strictly larger of a, b by a strictly smaller value,
\* the loop ends, and the value returned is a common ancestor of both
\* arguments, or 0.
C14_ClimbTerminates ==
    /\ [][LoopPassDecreases]_query
    /\ []ConvergesOnCommonAncestor
    /\ (Monotone(nodes) /\ query.pc = "loop") ~> (query.pc = "done")

\* a call that went through the loop and returned a common ancestor that is
\* neither 0 nor one of its arguments
C14_Witness ==
    /\ Monotone(nodes)
    /\ query.op = "lowest_common_ancestor" /\ query.pc = "done"
    /\ query.result \notin {0, query.a, query.b}
    /\ query.result \in ancestors_or_self(nodes, query.a)
    /\ query.result \in ancestors_or_self(nodes, query.b)

====
